---- MODULE Spec2Model ----
(***************************************************************************)
(* Model of the HTTP transport of jsonrpc-client-http (src/http/src/lib.rs):*)
(* the handles that enqueue requests, the request processing future that   *)
(* runs on the Tokio core (request_rx.for_each), the TimeLimited wrapper,  *)
(* the per-request oneshot completion channel and the shared id counter.   *)
(* Init is the state after a successful standalone(), the loop running on  *)
(* its thread; BootInit is the state before standalone()/shared() is       *)
(* called.                                                                 *)
(***************************************************************************)
EXTENDS Integers, Sequences, FiniteSets, TLC

\* ---------------------------------------------------------------- bounds
\* Number of send() calls explored.
MaxReq == 2
\* Number of get_next_id() calls explored.
MaxIds == 4
\* Number of HttpHandle values explored (handle() and clone()).
MaxHandles == 2
\* Number of HttpTransport values explored (the one built, and clones).
MaxTransports == 2
\* Number of set_header() calls explored.
MaxSets == 2

\* ------------------------------------------------------ program constants
\* AtomicUsize::new(1)
InitialId == 1
\* hyper::StatusCode::Ok
StatusOk == 200
\* The width of usize, the integer of the AtomicUsize, on a 64-bit target:
\* four limbs of sixteen bits, the most significant first.
UsizeLimbs == 4
LimbBits == 16
LimbBase == 2 ^ LimbBits

Reqs == 1..MaxReq
Handles == 1..MaxHandles
Sets == 1..MaxSets
\* The names of the headers set_header is called with: one that the library
\* sets itself on every request, and one that it does not.
HeaderNames == {"Content-Type", "X-Custom"}
\* Status codes the destination may answer with: the success code and one
\* other code.
Statuses == {200, 201}
\* Response bodies, as the chunks of the hyper::Body stream.
Bodies == { << <<7>>, <<8, 9>> >> }

VARIABLES
    timeout,    \* HttpTransportBuilder.timeout: "None" or "Some"
    transport,  \* number of live HttpTransport values (the one built, and clones)
    hst,        \* the live HttpHandle values, each with its headers
    id,         \* the shared AtomicUsize
    ids,        \* get_next_id calls in order: << handle, value returned >>
    nreq,       \* number of send() calls made so far
    queue,      \* the unbounded mpsc channel: requests in FIFO order
    loop,       \* the processing future: "running", "finished", "failed", "torn"
    fut,        \* for_each's pending per-item future (0: none)
    st,         \* per request: where it is in its lifecycle
    op,         \* per request: poll state of client.request(request)
    timer,      \* per request: state of the Timeout raced against it
    raced,      \* per request: what was complete at the resolving poll
    tlres,      \* per request: what TimeLimited resolved with
    body,       \* per request: the chunks of the response body
    bodyst,     \* per request: state of response.body().concat2()
    nsent,      \* per request: calls of response_tx.send
    sentRes,    \* per request: the result passed to response_tx.send
    chan,       \* per request: the oneshot channel's content
    caller,     \* per request: the future returned by send()
    outcome,    \* per request: what the send() future resolved with
    started,    \* requests in the order their HTTP call was issued
    tpc,        \* standalone(): where the spawned thread is
    crres,      \* standalone(): what create_standalone_core returned
    made,       \* the parts of the transport's back end created so far
    sync,       \* standalone(): the message in the std::sync::mpsc channel
    bres,       \* what standalone()/shared() returned to its caller
    hostTasks,  \* shared(): the tasks spawned on the caller's event loop
    rhdr,       \* per request: the headers of the hyper::Request made for it
    nset,       \* number of set_header() calls made so far
    elapsed,    \* per request not yet ended: time limits that ran out while
                \* it was queued
    entitled    \* per set_header call: the handle it was made on and the
                \* clones taken of that handle, or of such a clone, since

vars == << timeout, transport, hst, id, ids, nreq, queue, loop, fut, st, op,
           timer, raced, tlres, body, bodyst, nsent, sentRes, chan,
           caller, outcome, started, tpc, crres, made, sync, bres,
           hostTasks, rhdr, nset, entitled, elapsed >>

idVars == << id, ids >>
handleVars == << transport, hst >>
loopVars == << queue, loop, fut, st, op, timer, raced, tlres, body,
               bodyst, nsent, sentRes, chan, started >>
callerVars == << nreq, caller, outcome >>
bootVars == << tpc, crres, made, sync, bres, hostTasks >>
hdrVars == << nset, entitled >>

\* ---------------------------------------------------------------- values
None == << "None" >>
NotReady == << "NotReady" >>
Ready(x) == << "Ready", x >>
Err(e) == << "Err", e >>
Ok(b) == << "Ok", b >>
HttpError(c) == << "HttpError", c >>
RequestTimeout == << "RequestTimeout" >>
Hyper == << "Hyper" >>
QueueClosed == << "TokioCoreError", "Not listening for requests" >>
ExecutorTerminated == << "TokioCoreError", "Died without returning response" >>
\* The oneshot Sender was dropped without a value.
Canceled == << "Canceled" >>
\* ErrorKind::ClientCreatorError
ClientCreatorError == << "ClientCreatorError" >>
\* ErrorKind::TokioCoreError("Unable to create")
CoreCreateError == << "TokioCoreError", "Unable to create" >>
\* Ok(Self::build(request_tx))
OkTransport == << "Ok", "HttpTransport" >>
\* What exists once the back end is complete.
BackEnd == {"client", "queue", "future"}

\* A small number as a usize.
ToUsize(n) == [i \in 1..UsizeLimbs |-> IF i = UsizeLimbs THEN n ELSE 0]
\* usize::MAX
UsizeMax == [i \in 1..UsizeLimbs |-> LimbBase - 1]
UsizeZero == ToUsize(0)
\* v + 1 modulo 2^64: the carry runs up from the last limb through the
\* limbs that are full, and is lost past the first.
WrappingInc(v) ==
    LET open == {i \in 1..UsizeLimbs : v[i] # LimbBase - 1} IN
    IF open = {} THEN UsizeZero
    ELSE LET k == CHOOSE i \in open : \A j \in open : j <= i IN
         [i \in 1..UsizeLimbs |->
             IF i < k THEN v[i] ELSE IF i = k THEN v[i] + 1 ELSE 0]

\* body().concat2(): the chunks of the stream appended in order.
RECURSIVE Concat2(_)
Concat2(chunks) ==
    IF chunks = <<>> THEN <<>> ELSE Head(chunks) \o Concat2(Tail(chunks))

\* response_chunk.to_vec(): the bytes of the chunk, one by one.
ToVec(chunk) == [i \in 1..Len(chunk) |-> chunk[i]]

Init ==
    /\ timeout \in {"None", "Some"}
    /\ transport = 1
    /\ hst = <<>>
    /\ id = ToUsize(InitialId)
    /\ ids = <<>>
    /\ nreq = 0
    /\ queue = <<>>
    /\ loop = "running"
    /\ fut = 0
    /\ st = [r \in Reqs |-> "unsent"]
    /\ op = [r \in Reqs |-> None]
    /\ timer = [r \in Reqs |-> "none"]
    /\ raced = [r \in Reqs |-> "none"]
    /\ tlres = [r \in Reqs |-> None]
    /\ body = [r \in Reqs |-> <<>>]
    /\ bodyst = [r \in Reqs |-> "none"]
    /\ nsent = [r \in Reqs |-> 0]
    /\ sentRes = [r \in Reqs |-> None]
    /\ chan = [r \in Reqs |-> None]
    /\ caller = [r \in Reqs |-> "none"]
    /\ outcome = [r \in Reqs |-> None]
    /\ started = <<>>
    /\ tpc = "run"
    /\ crres = OkTransport
    /\ made = {"core"} \cup BackEnd
    /\ sync = None
    /\ bres = OkTransport
    /\ hostTasks = {}
    /\ rhdr = [r \in Reqs |-> {}]
    /\ nset = 0
    /\ elapsed = [r \in Reqs |-> 0]
    /\ entitled = [v \in Sets |-> {}]


\* ------------------------------------------------- handles and the counter
\* The live HttpHandle values, named by their position in hst. Every one of
\* them, and the HttpTransport, holds a clone of request_tx and of the
\* counter's Arc.
LiveHandles == 1..Len(hst)
\* A queue that counts the senders held by HttpTransport values only.
NoSendersTransportOnly == transport = 0
\* No sender of the queue is left.
NoSenders == transport = 0 /\ LiveHandles = {}
\* A handle that starts with the headers of the handles that exist.
NewHeadersInherited == UNION {hst[g] : g \in LiveHandles}
\* header::Headers::new(): a handle made by handle() has no header.
NewHeaders == {}

\* HttpTransport::handle(uri)
NewHandle ==
    /\ bres = OkTransport
    /\ transport > 0
    /\ Len(hst) < MaxHandles
    /\ hst' = Append(hst, NewHeaders)
    /\ UNCHANGED << bootVars, hdrVars, rhdr, elapsed, timeout, transport, idVars, loopVars, callerVars >>

\* #[derive(Clone)] on HttpHandle
CloneHandle(g) ==
    /\ g \in LiveHandles
    /\ Len(hst) < MaxHandles
    /\ hst' = Append(hst, hst[g])
    /\ entitled' = [v \in Sets |->
                      IF g \in entitled[v]
                      THEN entitled[v] \cup {Len(hst) + 1} ELSE entitled[v]]
    /\ UNCHANGED << bootVars, nset, rhdr, elapsed, timeout, transport, idVars, loopVars, callerVars >>

\* An HttpHandle goes out of scope; the handles after it move up one place.
DropHandle(h) ==
    /\ h \in LiveHandles
    /\ hst' = [i \in 1..(Len(hst) - 1) |-> IF i < h THEN hst[i] ELSE hst[i + 1]]
    /\ entitled' = [v \in Sets |->
                      {IF g > h THEN g - 1 ELSE g : g \in entitled[v] \ {h}}]
    /\ UNCHANGED << bootVars, nset, rhdr, elapsed, timeout, transport, idVars, loopVars, callerVars >>

\* Headers::set: the header replaces the one of the same name, if any.
HeadersSet(hs, p) == {q \in hs : q[1] # p[1]} \cup {p}

\* HttpHandle::set_header, for a header of the given name; the value is
\* told apart from every other call's by the call's number.
SetHeader(h, name) ==
    /\ h \in LiveHandles
    /\ nset < MaxSets
    /\ nset' = nset + 1
    /\ hst' = [hst EXCEPT ![h] = HeadersSet(@, << name, "user", nset + 1 >>)]
    /\ entitled' = [entitled EXCEPT ![nset + 1] = {h}]
    /\ UNCHANGED << bootVars, rhdr, elapsed, timeout, transport, idVars, loopVars, callerVars >>

\* #[derive(Clone)] on HttpTransport
CloneTransport ==
    /\ bres = OkTransport
    /\ transport > 0
    /\ transport < MaxTransports
    /\ transport' = transport + 1
    /\ UNCHANGED << bootVars, hdrVars, rhdr, elapsed, timeout, hst, idVars, loopVars, callerVars >>

\* An HttpTransport goes out of scope.
DropTransport ==
    /\ bres = OkTransport
    /\ transport > 0
    /\ transport' = transport - 1
    /\ UNCHANGED << bootVars, hdrVars, rhdr, elapsed, timeout, hst, idVars, loopVars, callerVars >>

\* A plain load: the counter is read and left as it is.
AtomicLoad(v) == v
\* An addition that stops at the integer maximum.
FetchAddSaturating(v) == IF v = UsizeMax THEN v ELSE WrappingInc(v)
\* AtomicUsize::fetch_add(1, SeqCst): the value left in the counter when v
\* is the value found (and returned); the addition wraps around on overflow.
FetchAdd(v) == WrappingInc(v)

\* HttpHandle::get_next_id
GetNextId(h) ==
    /\ h \in LiveHandles
    /\ Len(ids) < MaxIds
    /\ ids' = Append(ids, << h, id >>)
    /\ id' = FetchAdd(id)
    /\ UNCHANGED << bootVars, hdrVars, rhdr, elapsed, timeout, handleVars, loopVars, callerVars >>

\* ------------------------------------------------- standalone() and shared()
\* The tasks the caller's event loop runs for the caller itself.
HostOwnTasks == {"other"}

\* Before the builder's standalone() or shared() is called.
BootInit ==
    /\ timeout = "None"
    /\ transport = 0
    /\ hst = <<>>
    /\ id = ToUsize(InitialId)
    /\ ids = <<>>
    /\ nreq = 0
    /\ queue = <<>>
    /\ loop = "none"
    /\ fut = 0
    /\ st = [r \in Reqs |-> "unsent"]
    /\ op = [r \in Reqs |-> None]
    /\ timer = [r \in Reqs |-> "none"]
    /\ raced = [r \in Reqs |-> "none"]
    /\ tlres = [r \in Reqs |-> None]
    /\ body = [r \in Reqs |-> <<>>]
    /\ bodyst = [r \in Reqs |-> "none"]
    /\ nsent = [r \in Reqs |-> 0]
    /\ sentRes = [r \in Reqs |-> None]
    /\ chan = [r \in Reqs |-> None]
    /\ caller = [r \in Reqs |-> "none"]
    /\ outcome = [r \in Reqs |-> None]
    /\ started = <<>>
    /\ tpc = "none"
    /\ crres = None
    /\ made = {}
    /\ sync = None
    /\ bres = None
    /\ hostTasks = HostOwnTasks
    /\ rhdr = [r \in Reqs |-> {}]
    /\ nset = 0
    /\ elapsed = [r \in Reqs |-> 0]
    /\ entitled = [v \in Sets |-> {}]

\* The processing future is polled: by core.run on the standalone thread, or
\* by the caller's event loop it was spawned on.
HostPolls == tpc = "run" \/ "processing" \in hostTasks

\* standalone(): the channel is made and the thread spawned; the caller then
\* blocks in rx.recv().
StandaloneCall ==
    /\ tpc = "none"
    /\ bres = None
    /\ tpc' = "create"
    /\ UNCHANGED << hdrVars, rhdr, elapsed, timeout, handleVars, idVars, loopVars, callerVars, crres,
                    made, sync, bres, hostTasks >>

\* A core that puts off the queue and the future until it runs.
CreateStandaloneCoreLazy(coreOk, clientOk) ==
    IF ~coreOk THEN [res |-> CoreCreateError, made |-> {}]
    ELSE IF ~clientOk THEN [res |-> ClientCreatorError, made |-> {"core"}]
    ELSE [res |-> OkTransport, made |-> {"core", "client"}]
\* create_standalone_core: what it returns and what it has created, for the
\* results of Core::new and of client_creator.create.
CreateStandaloneCore(coreOk, clientOk) ==
    IF ~coreOk THEN [res |-> CoreCreateError, made |-> {}]
    ELSE IF ~clientOk THEN [res |-> ClientCreatorError, made |-> {"core"}]
    ELSE [res |-> OkTransport, made |-> {"core"} \cup BackEnd]

\* The spawned thread runs create_standalone_core.
ThreadCreate(coreOk, clientOk) ==
    /\ tpc = "create"
    /\ LET c == CreateStandaloneCore(coreOk, clientOk) IN
        /\ crres' = c.res
        /\ made' = c.made
        /\ loop' = IF "future" \in c.made THEN "running" ELSE loop
    /\ tpc' = "signal"
    /\ UNCHANGED << hdrVars, rhdr, elapsed, timeout, handleVars, idVars, callerVars, queue, fut, st,
                    op, timer, raced, tlres, body, bodyst, nsent, sentRes,
                    chan, started, sync, bres, hostTasks >>

\* The spawned thread sends the error, or the transport it builds around
\* request_tx, to the thread that called standalone().
ThreadSignal ==
    /\ tpc = "signal"
    /\ sync' = crres
    /\ transport' = IF crres = OkTransport THEN 1 ELSE 0
    /\ tpc' = "sent"
    /\ UNCHANGED << hdrVars, rhdr, elapsed, timeout, hst, idVars, loopVars, callerVars, crres, made,
                    bres, hostTasks >>

\* A thread that runs the core whatever create_standalone_core returned.
RunsLoopAlways(res) == TRUE
\* The arm of the match that goes on to core.run(future).
RunsLoop(res) == res = OkTransport

\* The spawned thread enters core.run(future).
ThreadRun ==
    /\ tpc = "sent"
    /\ RunsLoop(crres)
    /\ tpc' = "run"
    /\ UNCHANGED << hdrVars, rhdr, elapsed, timeout, handleVars, idVars, loopVars, callerVars, crres,
                    made, sync, bres, hostTasks >>

\* The spawned thread's closure returns: after the error was sent, or when
\* core.run returns because the processing future has ended.
ThreadExit ==
    /\ \/ tpc = "sent" /\ ~RunsLoop(crres)
       \/ tpc = "run" /\ loop \in {"finished", "failed"}
    /\ tpc' = "exited"
    /\ UNCHANGED << hdrVars, rhdr, elapsed, timeout, handleVars, idVars, loopVars, callerVars, crres,
                    made, sync, bres, hostTasks >>

\* rx.recv() returns the message and standalone() returns it.
StandaloneRecv ==
    /\ bres = None
    /\ sync # None
    /\ bres' = sync
    /\ sync' = None
    /\ UNCHANGED << hdrVars, rhdr, elapsed, timeout, handleVars, idVars, loopVars, callerVars, tpc,
                    crres, made, hostTasks >>

\* A shared() that spawns the processing future before it has a client.
SharedSpawnsFirst(clientOk) == TRUE
\* shared() reaches handle.spawn only when client_creator.create succeeded:
\* the ? operator returns the error before.
SharedSpawns(clientOk) == clientOk

\* shared(handle), for the result of client_creator.create.
SharedCall(clientOk) ==
    /\ tpc = "none"
    /\ bres = None
    /\ hostTasks' = IF SharedSpawns(clientOk)
                    THEN hostTasks \cup {"processing"} ELSE hostTasks
    /\ IF clientOk
         THEN /\ made' = BackEnd
              /\ loop' = "running"
              /\ transport' = 1
              /\ bres' = OkTransport
         ELSE /\ made' = {}
              /\ bres' = ClientCreatorError
              /\ UNCHANGED << loop, transport >>
    /\ UNCHANGED << hdrVars, rhdr, elapsed, timeout, hst, idVars, callerVars, queue, fut, st, op,
                    timer, raced, tlres, body, bodyst, nsent, sentRes, chan,
                    started, tpc, crres, sync >>

\* get_next_id called again and again through one handle, the values it
\* returns not recorded, until the counter holds the integer maximum.
GetNextIdRun(h) ==
    /\ h \in LiveHandles
    /\ id # UsizeMax
    /\ id' = UsizeMax
    /\ UNCHANGED << bootVars, hdrVars, rhdr, elapsed, timeout, handleVars, loopVars, callerVars, ids >>

\* ------------------------------------------------------------------ send
\* A sender that does not look at the receiver's state.
UnboundedSendBlind == TRUE
\* UnboundedSender::unbounded_send succeeds while the receiver is alive.
UnboundedSend == loop = "running"

\* Headers::extend: every header of the second collection is set on the
\* first.
HeadersExtend(hs, more) ==
    {q \in hs : \A p \in more : p[1] # q[1]} \cup more

\* HttpHandle::create_request: the headers of the request, for the headers
\* of the handle. The library's own values are written as 0.
CreateRequest(headers) ==
    HeadersExtend({<< "Content-Type", "lib", 0 >>,
                   << "Content-Length", "lib", 0 >>}, headers)

\* A send() that arms the time limit itself.
TimerAtSendArmed(limit) == IF limit = "Some" THEN "running" ELSE "none"
\* send() creates no timer: the request and response_tx are all it queues.
TimerAtSend(limit) == "none"

\* HttpHandle::send
Send(h) ==
    /\ h \in LiveHandles
    /\ nreq < MaxReq
    /\ nreq' = nreq + 1
    /\ rhdr' = [rhdr EXCEPT ![nreq + 1] = CreateRequest(hst[h])]
    /\ timer' = [timer EXCEPT ![nreq + 1] = TimerAtSend(timeout)]
    /\ LET r == nreq + 1 IN
        /\ caller' = [caller EXCEPT ![r] = "waiting"]
        /\ IF UnboundedSend
             THEN /\ queue' = Append(queue, r)
                  /\ st' = [st EXCEPT ![r] = "queued"]
             ELSE /\ queue' = queue
                  /\ st' = [st EXCEPT ![r] = "rejected"]
    /\ UNCHANGED << bootVars, hdrVars, elapsed, timeout, handleVars, idVars, loop, fut,
                    op, raced, tlres, body, bodyst, nsent, sentRes,
                    chan, outcome, started >>

\* One poll of the future send() returned: sendOk is unbounded_send's result,
\* ch the content of the oneshot channel.
SendFuturePoll(sendOk, ch) ==
    IF ~sendOk THEN QueueClosed
    ELSE IF ch = None THEN NotReady
    ELSE IF ch = Canceled THEN ExecutorTerminated
    ELSE ch

\* The caller polls (waits on) the future it got from send().
CallerPoll(r) ==
    /\ caller[r] = "waiting"
    /\ LET res == SendFuturePoll(st[r] # "rejected", chan[r]) IN
        /\ res # NotReady
        /\ outcome' = [outcome EXCEPT ![r] = res]
        /\ caller' = [caller EXCEPT ![r] = "resolved"]
    /\ UNCHANGED << bootVars, hdrVars, rhdr, elapsed, timeout, handleVars, idVars, loopVars, nreq >>

\* The caller drops the future without waiting for it.
CallerDrop(r) ==
    /\ caller[r] = "waiting"
    /\ caller' = [caller EXCEPT ![r] = "dropped"]
    /\ UNCHANGED << bootVars, hdrVars, rhdr, elapsed, timeout, handleVars, idVars, loopVars, nreq, outcome >>


\* ------------------------------------------------------------ TimeLimited
\* TimeLimited::new: the variant chosen for the optional time limit.
TimeLimitedNew(limit) == IF limit = "Some" THEN "Limited" ELSE "Unlimited"

\* Timeout::poll, for the timer's state.
TimerPoll(t) ==
    CASE t = "fired" -> Ready("unit")
      [] t = "error" -> Err("io")
      [] OTHER -> NotReady

\* A select that asks the timer first.
Select2PollTimerFirst(a, b) ==
    CASE b[1] = "Ready" -> << "Ready", "B", b[2] >>
      [] b[1] = "Err" -> << "Err", "B", b[2] >>
      [] a[1] = "Ready" -> << "Ready", "A", a[2] >>
      [] a[1] = "Err" -> << "Err", "A", a[2] >>
      [] OTHER -> NotReady
\* Select2::poll: the first future is polled first, and the second only when
\* the first is not ready.
Select2Poll(a, b) ==
    CASE a[1] = "Ready" -> << "Ready", "A", a[2] >>
      [] a[1] = "Err" -> << "Err", "A", a[2] >>
      [] b[1] = "Ready" -> << "Ready", "B", b[2] >>
      [] b[1] = "Err" -> << "Err", "B", b[2] >>
      [] OTHER -> NotReady

\* A poll that reports every error of the race as a timeout.
TimeLimitedPollErrAsTimeout(variant, a, b) ==
    IF variant = "Unlimited" THEN a
    ELSE LET s == Select2Poll(a, b) IN
         CASE s = NotReady -> NotReady
           [] s[1] = "Ready" /\ s[2] = "A" -> Ready(s[3])
           [] s[1] = "Ready" /\ s[2] = "B" -> Err(RequestTimeout)
           [] s[1] = "Err" /\ s[2] = "A" -> Err(RequestTimeout)
           [] s[1] = "Err" /\ s[2] = "B" -> Err(RequestTimeout)
\* TimeLimited::poll: a is the poll of the wrapped future, b of the timer.
TimeLimitedPoll(variant, a, b) ==
    IF variant = "Unlimited" THEN a
    ELSE LET s == Select2Poll(a, b) IN
         CASE s = NotReady -> NotReady
           [] s[1] = "Ready" /\ s[2] = "A" -> Ready(s[3])
           [] s[1] = "Ready" /\ s[2] = "B" -> Err(RequestTimeout)
           [] s[1] = "Err" /\ s[2] = "A" -> Err(s[3])
           [] s[1] = "Err" /\ s[2] = "B" -> Err(RequestTimeout)


\* ------------------------------------------------ the processing future
Range(q) == {q[i] : i \in 1..Len(q)}

\* A loop that asks the queue for the next item whatever it is doing.
StreamPolledAlways == TRUE
\* for_each asks the stream for the next item only when the future of the
\* previous item has resolved.
StreamPolled == fut = 0

\* A queue that passes over the requests whose caller has dropped the
\* future.
QueueNextSkipDropped(q) ==
    LET live == {i \in 1..Len(q) : caller[q[i]] # "dropped"} IN
    IF live = {} THEN Head(q)
    ELSE q[CHOOSE i \in live : \A j \in live : i <= j]
\* A queue that hands out its newest message.
QueueLast(q) == q[Len(q)]
\* UnboundedReceiver::poll: the oldest message of the queue.
QueueNext(q) == Head(q)

\* The loop takes the next (request, response_tx) off the queue, issues the
\* HTTP call and wraps it in TimeLimited.
Dequeue ==
    /\ HostPolls
    /\ loop = "running"
    /\ StreamPolled
    /\ queue # <<>>
    /\ LET r == QueueNext(queue) IN
        /\ queue' = SelectSeq(queue, LAMBDA x : x # r)
        /\ fut' = r
        /\ st' = [st EXCEPT ![r] = "call"]
        /\ op' = [op EXCEPT ![r] = NotReady]
        /\ timer' = [timer EXCEPT ![r] =
                        IF TimeLimitedNew(timeout) = "Limited"
                        THEN "running" ELSE "none"]
        /\ started' = Append(started, r)
    /\ UNCHANGED << bootVars, hdrVars, rhdr, elapsed, timeout, handleVars, idVars, callerVars, loop, raced, tlres, body, bodyst, nsent, sentRes, chan >>

\* The stream ends: the queue is empty and every sender has been dropped.
LoopEnd ==
    /\ HostPolls
    /\ loop = "running"
    /\ StreamPolled
    /\ queue = <<>>
    /\ NoSenders
    /\ loop' = "finished"
    /\ UNCHANGED << bootVars, hdrVars, rhdr, elapsed, timeout, handleVars, idVars, callerVars, queue, fut, st,
                    op, timer, raced, tlres, body, bodyst, nsent,
                    sentRes, chan, started >>

\* A last combinator that runs its closure on a success only (and_then).
AndThenRuns(res) == res[1] = "Ok"
\* The last combinator is then: its closure runs on a success and on an error.
ThenRuns(res) == TRUE

\* A closure that hands the failure of response_tx.send to the loop.
ThenReturnSendResult(sendOk) == IF sendOk THEN "Ok" ELSE "Err"
\* The closure's value: a failed response_tx.send is logged, and Ok(()) is
\* returned in both cases.
ThenReturn(sendOk) == "Ok"

\* A loop that answers on the channel of the first request it started.
ResponseTxFirst(r) == started[1]
\* The response_tx the closure of then has captured: the one that came off
\* the queue in the same message as the request.
ResponseTx(r) == r

\* The end of a request's future with result res: the closure of then sends
\* res on the request's oneshot channel, and for_each goes on or, on an
\* error of the future, ends, which drops the receiver and what it holds.
Deliver(r, res) ==
    LET runs == ThenRuns(res)
        sendOk == caller[r] # "dropped"
        ret == IF runs THEN ThenReturn(sendOk) ELSE "Err"
        lost == IF ret = "Ok" THEN {} ELSE Range(queue)
    IN  /\ nsent' = [nsent EXCEPT ![r] = IF runs THEN @ + 1 ELSE @]
        /\ sentRes' = [sentRes EXCEPT ![r] = IF runs THEN res ELSE @]
        /\ chan' = [q \in Reqs |->
                      IF q = ResponseTx(r)
                      THEN (IF runs /\ sendOk THEN res
                            ELSE IF runs THEN chan[q] ELSE Canceled)
                      ELSE IF q \in lost THEN Canceled ELSE chan[q]]
        /\ st' = [q \in Reqs |->
                      IF q = r THEN "done"
                      ELSE IF q \in lost THEN "dropped" ELSE st[q]]
        /\ fut' = 0
        /\ elapsed' = [elapsed EXCEPT ![r] = 0]
        /\ loop' = IF ret = "Ok" THEN "running" ELSE "failed"
        /\ queue' = IF ret = "Ok" THEN queue ELSE <<>>

\* A check that takes every 2xx status for a success.
StatusIsOk2xx(code) == code >= 200 /\ code < 300
\* response.status() == hyper::StatusCode::Ok
StatusIsOk(code) == code = StatusOk

\* The loop polls the request's future while the HTTP call is pending, and
\* TimeLimited resolves: the status is checked and either the body read
\* begins or the error is delivered.
PollCall(r) ==
    /\ HostPolls
    /\ loop = "running"
    /\ fut = r
    /\ st[r] = "call"
    /\ LET variant == TimeLimitedNew(timeout)
           a == op[r]
           b == TimerPoll(timer[r])
           res == TimeLimitedPoll(variant, a, b)
       IN
        /\ res # NotReady
        /\ tlres' = [tlres EXCEPT ![r] = res]
        /\ raced' = [raced EXCEPT ![r] =
                        IF b = NotReady THEN "op"
                        ELSE IF a = NotReady THEN "timer" ELSE "both"]
        /\ op' = [op EXCEPT ![r] = None]
        /\ timer' = [timer EXCEPT ![r] = IF @ = "none" THEN @ ELSE "dropped"]
        /\ IF res[1] = "Ready" /\ StatusIsOk(res[2])
             THEN /\ st' = [st EXCEPT ![r] = "body"]
                  /\ bodyst' = [bodyst EXCEPT ![r] = "streaming"]
                  /\ UNCHANGED << nsent, sentRes, chan, fut, loop, queue, elapsed >>
             ELSE /\ Deliver(r, IF res[1] = "Ready" THEN HttpError(res[2])
                                ELSE res[2])
                  /\ UNCHANGED bodyst
    /\ UNCHANGED << bootVars, hdrVars, rhdr, timeout, handleVars, idVars,
                    callerVars, body, started >>

\* The loop polls the request's future while the body is read, and concat2
\* resolves: the bytes, or the error of the stream, are delivered.
PollBody(r) ==
    /\ HostPolls
    /\ loop = "running"
    /\ fut = r
    /\ st[r] = "body"
    /\ bodyst[r] \in {"eof", "error"}
    /\ Deliver(r, IF bodyst[r] = "eof" THEN Ok(ToVec(Concat2(body[r])))
                  ELSE Hyper)
    /\ UNCHANGED << bootVars, hdrVars, rhdr, timeout, handleVars, idVars,
                    callerVars, op, timer, raced, tlres, body, bodyst, started >>

\* The host of the loop goes away (the Core is dropped, the thread dies): the
\* processing future is dropped with the receiver, the queued messages and
\* the future of the request in flight, and so is every response_tx.
TearDown ==
    /\ loop = "running"
    /\ loop' = "torn"
    /\ LET lost == Range(queue) \cup ({fut} \ {0}) IN
        /\ st' = [q \in Reqs |-> IF q \in lost THEN "dropped" ELSE st[q]]
        /\ chan' = [q \in Reqs |-> IF q \in lost THEN Canceled ELSE chan[q]]
        /\ timer' = [q \in Reqs |->
                       IF q \in lost /\ timer[q] # "none" THEN "dropped"
                       ELSE timer[q]]
        /\ elapsed' = [q \in Reqs |-> IF q \in lost THEN 0 ELSE elapsed[q]]
    /\ queue' = <<>>
    /\ fut' = 0
    /\ UNCHANGED << bootVars, hdrVars, rhdr, timeout, handleVars, idVars,
                    callerVars, op, raced, tlres, body, bodyst, nsent, sentRes,
                    started >>

\* --------------------------------------------- the destination and the timer
\* The response headers arrive, with their status code.
ServerRespond(r, code) ==
    /\ st[r] = "call"
    /\ op[r] = NotReady
    /\ op' = [op EXCEPT ![r] = Ready(code)]
    /\ UNCHANGED << bootVars, hdrVars, rhdr, elapsed, timeout, handleVars, idVars, callerVars, queue, loop, fut,
                    st, timer, raced, tlres, body, bodyst, nsent, sentRes, chan,
                    started >>

\* The HTTP call fails (connection error).
ServerError(r) ==
    /\ st[r] = "call"
    /\ op[r] = NotReady
    /\ op' = [op EXCEPT ![r] = Err(Hyper)]
    /\ UNCHANGED << bootVars, hdrVars, rhdr, elapsed, timeout, handleVars, idVars, callerVars, queue, loop, fut,
                    st, timer, raced, tlres, body, bodyst, nsent, sentRes, chan,
                    started >>

\* The destination answers a call that TimeLimited has given up: the future
\* of the call was dropped when the timer won, and nothing waits for it.
LateResponse(r, code) ==
    /\ st[r] = "done"
    /\ tlres[r] = Err(RequestTimeout)
    /\ op[r] = None
    /\ op' = [op EXCEPT ![r] = Ready(code)]
    /\ UNCHANGED << bootVars, hdrVars, rhdr, elapsed, timeout, handleVars, idVars, callerVars, queue, loop, fut,
                    st, timer, raced, tlres, body, bodyst, nsent, sentRes, chan,
                    started >>

\* The time limit of the request in flight elapses.
TimerFire(r) ==
    /\ st[r] = "call"
    /\ timer[r] = "running"
    /\ timer' = [timer EXCEPT ![r] = "fired"]
    /\ elapsed' = [q \in Reqs |->
                     IF st[q] = "queued" THEN elapsed[q] + 1 ELSE elapsed[q]]
    /\ UNCHANGED << bootVars, hdrVars, rhdr, timeout, handleVars, idVars, callerVars, queue, loop, fut,
                    st, op, raced, tlres, body, bodyst, nsent, sentRes, chan,
                    started >>

\* The timer itself fails.
TimerFail(r) ==
    /\ st[r] = "call"
    /\ timer[r] = "running"
    /\ timer' = [timer EXCEPT ![r] = "error"]
    /\ UNCHANGED << bootVars, hdrVars, rhdr, elapsed, timeout, handleVars, idVars, callerVars, queue, loop, fut,
                    st, op, raced, tlres, body, bodyst, nsent, sentRes, chan,
                    started >>

\* The response body arrives to its end, in the given chunks.
BodyEof(r, chunks) ==
    /\ st[r] = "body"
    /\ bodyst[r] = "streaming"
    /\ bodyst' = [bodyst EXCEPT ![r] = "eof"]
    /\ body' = [body EXCEPT ![r] = chunks]
    /\ UNCHANGED << bootVars, hdrVars, rhdr, elapsed, timeout, handleVars, idVars, callerVars, queue, loop, fut,
                    st, op, timer, raced, tlres, nsent, sentRes,
                    chan, started >>

\* The body stream fails before its end.
BodyError(r) ==
    /\ st[r] = "body"
    /\ bodyst[r] = "streaming"
    /\ bodyst' = [bodyst EXCEPT ![r] = "error"]
    /\ UNCHANGED << bootVars, hdrVars, rhdr, elapsed, timeout, handleVars, idVars, callerVars, queue, loop, fut,
                    st, op, timer, raced, tlres, body, nsent, sentRes,
                    chan, started >>

\* ------------------------------------------------------------ specification
Next ==
    \/ NewHandle
    \/ \E g \in Handles : CloneHandle(g)
    \/ \E h \in Handles : DropHandle(h)
    \/ DropTransport
    \/ \E h \in Handles : Send(h)
    \/ \E r \in Reqs : CallerPoll(r)
    \/ \E r \in Reqs : CallerDrop(r)
    \/ Dequeue
    \/ LoopEnd
    \/ \E r \in Reqs : PollCall(r)
    \/ \E r \in Reqs : PollBody(r)
    \/ TearDown
    \/ \E r \in Reqs, code \in Statuses : ServerRespond(r, code)
    \/ \E r \in Reqs : ServerError(r)
    \/ \E r \in Reqs : TimerFire(r)
    \/ \E r \in Reqs : TimerFail(r)
    \/ \E r \in Reqs, chunks \in Bodies : BodyEof(r, chunks)
    \/ \E r \in Reqs : BodyError(r)

Spec == Init /\ [][Next]_vars

\* The handles and the counter they share, on their own: get_next_id touches
\* nothing but the counter, whatever the queue and the loop are doing.
NextId ==
    \/ NewHandle
    \/ \E g \in Handles : CloneHandle(g)
    \/ \E h \in Handles : DropHandle(h)
    \/ DropTransport
    \/ \E h \in Handles : GetNextId(h)

IdSpec == Init /\ [][NextId]_vars

\* The counter up to and past the integer maximum.
WrapNext ==
    \/ NewHandle
    \/ \E h \in Handles : GetNextId(h)
    \/ \E h \in Handles : GetNextIdRun(h)

WrapSpec == Init /\ [][WrapNext]_vars

\* The requests of one transport from send() to their end, with callers that
\* may drop their futures and a destination that may answer late, after
\* TimeLimited has given the call up.
RequestNext ==
    \/ NewHandle
    \/ \E h \in Handles : Send(h)
    \/ \E r \in Reqs : CallerPoll(r)
    \/ \E r \in Reqs : CallerDrop(r)
    \/ Dequeue
    \/ \E r \in Reqs : PollCall(r)
    \/ \E r \in Reqs : PollBody(r)
    \/ \E r \in Reqs, code \in Statuses : ServerRespond(r, code)
    \/ \E r \in Reqs : ServerError(r)
    \/ \E r \in Reqs, code \in Statuses : LateResponse(r, code)
    \/ \E r \in Reqs : TimerFire(r)
    \/ \E r \in Reqs, chunks \in Bodies : BodyEof(r, chunks)

RequestSpec == Init /\ [][RequestNext]_vars

\* The handles, their headers and the requests made through them.
HeaderNext ==
    \/ NewHandle
    \/ \E g \in Handles : CloneHandle(g)
    \/ \E h \in Handles, name \in HeaderNames : SetHeader(h, name)
    \/ \E h \in Handles : Send(h)

HeaderSpec == Init /\ [][HeaderNext]_vars

\* The construction of the transport, followed by its use: handles, requests
\* and the loop, with a destination that answers 200 and a body.
BootNext ==
    \/ StandaloneCall
    \/ \E coreOk, clientOk \in BOOLEAN : ThreadCreate(coreOk, clientOk)
    \/ ThreadSignal
    \/ ThreadRun
    \/ ThreadExit
    \/ StandaloneRecv
    \/ \E clientOk \in BOOLEAN : SharedCall(clientOk)
    \/ NewHandle
    \/ \E h \in Handles : DropHandle(h)
    \/ CloneTransport
    \/ DropTransport
    \/ \E h \in Handles : Send(h)
    \/ \E r \in Reqs : CallerPoll(r)
    \/ Dequeue
    \/ LoopEnd
    \/ \E r \in Reqs : PollCall(r)
    \/ \E r \in Reqs : PollBody(r)
    \/ \E r \in Reqs, code \in Statuses : ServerRespond(r, code)
    \/ \E r \in Reqs, chunks \in Bodies : BodyEof(r, chunks)

\* The spawned thread gets to run, the thread blocked in rx.recv() is woken
\* when the message is there, and the loop's host polls the future.
BootFairness ==
    /\ WF_vars(\E coreOk, clientOk \in BOOLEAN : ThreadCreate(coreOk, clientOk))
    /\ WF_vars(ThreadSignal)
    /\ WF_vars(ThreadRun)
    /\ WF_vars(ThreadExit)
    /\ WF_vars(StandaloneRecv)
    /\ WF_vars(Dequeue)
    /\ WF_vars(LoopEnd)
    /\ WF_vars(\E r \in Reqs : PollCall(r))
    /\ WF_vars(\E r \in Reqs : PollBody(r))

BootSpec == BootInit /\ [][BootNext]_vars /\ BootFairness

\* The loop's host polls the processing future whenever it can make
\* progress, armed timers elapse, and a caller that waits on its future is
\* woken; the destination is under no obligation to answer.
Fairness ==
    /\ WF_vars(Dequeue)
    /\ WF_vars(LoopEnd)
    /\ WF_vars(\E r \in Reqs : PollCall(r))
    /\ WF_vars(\E r \in Reqs : PollBody(r))
    /\ WF_vars(\E r \in Reqs : TimerFire(r) \/ TimerFail(r))
    /\ WF_vars(\E r \in Reqs : CallerPoll(r))

FairSpec == Init /\ [][Next]_vars /\ Fairness


\* ------------------------------------------------------------------ claims
\* Requests whose HTTP call has been issued and whose result has not yet
\* been handed to response_tx.send.
InFlight == {r \in Reqs : st[r] \in {"call", "body"}}

\* C1: at most one request is in flight at any time: while a request is in
\* its HTTP call or body read it is the loop's only pending future, and
\* every request started before it has finished its whole lifecycle, its
\* result handed to its completion channel, whatever that result was.
C1_OneInFlight ==
    /\ Cardinality(InFlight) <= 1
    /\ \A r \in InFlight :
        /\ fut = r
        /\ \A q \in Range(started) \ {r} : st[q] = "done" /\ nsent[q] = 1

\* A second request is in flight after the first one ended with an error.
C1_Witness ==
    \E r, q \in Reqs :
        /\ r # q
        /\ st[r] = "done"
        /\ sentRes[r] = RequestTimeout
        /\ st[q] = "body"

\* C2: FIFO network phase: send() numbers the requests in the order they are
\* enqueued, and the HTTP calls are started in that order: a request is
\* started only after every request enqueued before it.
C2_Fifo ==
    /\ \A i, j \in 1..Len(started) : i < j => started[i] < started[j]
    /\ \A r \in Range(started) : \A q \in Reqs :
          (q < r /\ st[q] \notin {"unsent", "rejected"}) => q \in Range(started)

\* Both calls have been started, in the order of their send(): the first
\* request is done and its caller has the result, the second is in its call.
C2_Witness ==
    /\ Len(started) = 2
    /\ \E r \in Reqs : st[r] = "done" /\ caller[r] = "resolved"
    /\ \E r \in Reqs : st[r] = "call"

\* C3: after N get_next_id calls on handles sharing the counter, in any
\* interleaving, the values returned are exactly 1..N, each once.
C3_IdsExactly1toN ==
    /\ {ids[i][2] : i \in 1..Len(ids)} = {ToUsize(n) : n \in 1..Len(ids)}
    /\ \A i, j \in 1..Len(ids) : i # j => ids[i][2] # ids[j][2]

\* Three calls were made, through two different handles.
C3_Witness ==
    /\ Len(ids) = 3
    /\ \E i, j \in 1..Len(ids) : ids[i][1] # ids[j][1]

\* C4: a request the loop has finished had response_tx.send called exactly
\* once, with a result; a request still queued or in flight had it called
\* zero times; never twice. The channel holds nothing but that result, and
\* the caller's future, once resolved, resolved with it.
C4_ExactlyOneResult ==
    \A r \in Reqs :
        /\ nsent[r] <= 1
        /\ st[r] = "done" => nsent[r] = 1 /\ sentRes[r] # None
        /\ st[r] # "done" => nsent[r] = 0 /\ sentRes[r] = None
        /\ chan[r] \notin {None, Canceled} => chan[r] = sentRes[r]
        /\ caller[r] = "resolved" <=> outcome[r] # None
        /\ (caller[r] = "resolved" /\ st[r] = "done") => outcome[r] = sentRes[r]

\* One request got a success and another an error, each once, and both
\* callers have them.
C4_Witness ==
    \E r, q \in Reqs :
        /\ nsent[r] = 1 /\ outcome[r] = HttpError(201)
        /\ nsent[q] = 1 /\ outcome[q] = Ok(<< 7, 8, 9 >>)


\* C5: the end of a request never stops the loop: in every step in which a
\* request in flight finishes, whatever its result and whether or not the
\* delivery succeeded, the loop is still running afterwards, has no pending
\* future and has kept its queue, so that the next queued request is taken.
C5_LoopSurvives ==
    [][\A r \in Reqs :
          (st[r] \in {"call", "body"} /\ st'[r] = "done") =>
              /\ loop' = "running"
              /\ fut' = 0
              /\ queue' = queue
              /\ \A q \in Range(queue) : st'[q] = "queued"]_vars

\* A request ended with a failed delivery (its caller had dropped the
\* future) and the loop has started the HTTP call of the next one.
C5_Witness ==
    \E r, q \in Reqs :
        /\ st[r] = "done" /\ caller[r] = "dropped" /\ chan[r] = None
        /\ sentRes[r] = HttpError(201)
        /\ st[q] = "call" /\ loop = "running"

\* C6: once the loop has been torn down nothing stays queued or in flight,
\* and no send() hangs: every future still waiting is ready to resolve. A
\* send() refused by the closed queue resolves with "Not listening for
\* requests", one whose request was queued or in flight at the teardown with
\* "Died without returning response", and neither with a success.
C6_DisconnectionSafety ==
    loop = "torn" =>
        \A r \in Reqs :
            /\ st[r] \notin {"queued", "call", "body"}
            /\ caller[r] = "waiting" =>
                  SendFuturePoll(st[r] # "rejected", chan[r]) # NotReady
            /\ st[r] = "rejected" =>
                  /\ SendFuturePoll(FALSE, chan[r]) = QueueClosed
                  /\ outcome[r] \in {None, QueueClosed}
            /\ st[r] = "dropped" =>
                  /\ chan[r] = Canceled
                  /\ SendFuturePoll(TRUE, chan[r]) = ExecutorTerminated
                  /\ outcome[r] \in {None, ExecutorTerminated}

\* After the teardown one caller, whose request was in flight, got
\* ExecutorTerminated and another, who sent afterwards, got QueueClosed.
C6_Witness ==
    /\ loop = "torn"
    /\ \E r, q \in Reqs :
        /\ st[r] = "dropped" /\ r \in Range(started)
        /\ outcome[r] = ExecutorTerminated
        /\ st[q] = "rejected" /\ outcome[q] = QueueClosed

\* The step in which TimeLimited resolves for request r.
Resolves(r) == st[r] = "call" /\ tlres[r] = None /\ tlres'[r] # None

\* C7: TimeLimited yields RequestTimeout only with a duration configured and
\* the timer complete while the operation is not; with no duration, or with
\* the operation complete, it yields the operation's own result unchanged.
C7_TimeLimitedOutcome ==
    [][\A r \in Reqs :
          Resolves(r) =>
              /\ tlres'[r] = Err(RequestTimeout) =>
                    /\ timeout = "Some"
                    /\ timer[r] \in {"fired", "error"}
                    /\ op[r] = NotReady
              /\ (timeout = "None" \/ op[r] # NotReady) => tlres'[r] = op[r]]_vars

\* With a duration configured, one request timed out and another failed
\* with the operation's own error.
C7_Witness ==
    /\ timeout = "Some"
    /\ \E r, q \in Reqs :
        /\ tlres[r] = Err(RequestTimeout) /\ raced[r] = "timer"
        /\ tlres[q] = Err(Hyper) /\ raced[q] = "op"

\* C8: when the operation and the timer are both complete at the poll that
\* resolves TimeLimited, the result is the operation's, not RequestTimeout.
C8_TieGoesToOperation ==
    [][\A r \in Reqs :
          (Resolves(r) /\ op[r] # NotReady /\ timer[r] \in {"fired", "error"})
              => (tlres'[r] = op[r] /\ tlres'[r] # Err(RequestTimeout))]_vars

\* The timer had fired and the response had arrived when the loop polled,
\* and the caller got the response's body.
C8_Witness ==
    \E r \in Reqs :
        /\ raced[r] = "both"
        /\ tlres[r] = Ready(200)
        /\ outcome[r] = Ok(<< 7, 8, 9 >>)

\* C9: for a response that TimeLimited let through, status 200 and a body
\* read to its end make the loop send success with the body's bytes; any
\* other status code makes it send HttpError(code) at once, the body never
\* read; and the caller's future resolves with what was sent.
C9_StatusMapping ==
    \A r \in Reqs :
        tlres[r][1] = "Ready" =>
            /\ tlres[r][2] = 200 =>
                  /\ (st[r] = "done" /\ bodyst[r] = "eof") =>
                        sentRes[r] = Ok(Concat2(body[r]))
                  /\ (st[r] = "done" /\ bodyst[r] # "eof") => sentRes[r] = Hyper
            /\ tlres[r][2] # 200 =>
                  /\ st[r] = "done"
                  /\ sentRes[r] = HttpError(tlres[r][2])
                  /\ bodyst[r] = "none"
                  /\ body[r] = <<>>
            /\ (st[r] = "done" /\ caller[r] = "waiting") => chan[r] = sentRes[r]
            /\ (st[r] = "done" /\ caller[r] = "resolved") =>
                  outcome[r] = sentRes[r]

\* One caller got the bytes of a 200 response and another HttpError(201).
C9_Witness ==
    \E r, q \in Reqs :
        /\ tlres[r] = Ready(200) /\ outcome[r] = Ok(<< 7, 8, 9 >>)
        /\ tlres[q] = Ready(201) /\ outcome[q] = HttpError(201)

\* C10: every request that send() enqueued eventually has its HTTP call
\* issued by the loop (unless the loop's host is torn down first), whatever
\* the requests ahead of it do and whatever the timeout.
C10_EventuallyAttempted ==
    \A r \in Reqs :
        (st[r] = "queued") ~> (r \in Range(started) \/ loop = "torn")

\* C11: when the client factory fails in standalone(), the caller gets
\* ClientCreatorError and nothing else, no HttpTransport and no handle ever
\* exists, and the spawned thread goes from sending the error to its exit:
\* it never runs the loop, whose future was never created.
C11_StandaloneFailureContained ==
    crres = ClientCreatorError =>
        /\ bres \in {None, ClientCreatorError}
        /\ sync \in {None, ClientCreatorError}
        /\ (tpc = "exited" /\ bres = None) => sync = ClientCreatorError
        /\ transport = 0 /\ hst = <<>>
        /\ tpc \in {"signal", "sent", "exited"}
        /\ "future" \notin made /\ "queue" \notin made
        /\ loop = "none" /\ started = <<>> /\ ~HostPolls

\* The factory failed, standalone() has returned the error and the thread
\* has exited.
C11_Witness ==
    /\ crres = ClientCreatorError
    /\ bres = ClientCreatorError
    /\ tpc = "exited"

\* C12: the step in which shared() returns ClientCreatorError leaves the set
\* of tasks of the caller's event loop as it was, creates no queue and no
\* processing future, and builds no transport.
C12_SharedFailureFrame ==
    [][(tpc = "none" /\ bres = None /\ bres' = ClientCreatorError) =>
          /\ hostTasks' = hostTasks
          /\ made' = {}
          /\ queue' = queue /\ loop' = "none"
          /\ transport' = 0]_vars

\* shared() has returned ClientCreatorError.
C12_Witness ==
    /\ tpc = "none"
    /\ bres = ClientCreatorError
    /\ hostTasks = HostOwnTasks

\* The headers of a collection that set_header put there.
UserHeaders(hs) == {p \in hs : p[2] = "user"}

\* C13: a handle holds a header only if set_header was called with it on
\* that handle, or on the handle it was cloned from before the clone was
\* taken: handles made by handle() and clones taken before the call never
\* get it. A set_header call changes the headers of its own handle only, a
\* header stays on its handle until that handle is given another of the
\* same name, and a request sent through a handle carries every header the
\* handle holds at that moment and no other custom header.
C13_HeadersPerHandle ==
    /\ [](\A h \in LiveHandles : \A p \in hst[h] : h \in entitled[p[3]])
    /\ [][(nset' # nset =>
              \E h \in LiveHandles :
                  /\ \E name \in HeaderNames :
                        << name, "user", nset' >> \in hst'[h]
                  /\ \A g \in LiveHandles \ {h} : hst'[g] = hst[g])
          /\ (\A h \in LiveHandles : \A p \in hst[h] :
                  \/ p \in hst'[h]
                  \/ \E q \in hst'[h] :
                        q[1] = p[1] /\ q[3] = nset' /\ nset' # nset)
          /\ (\A h \in Handles :
                  Send(h) =>
                      /\ UserHeaders(rhdr'[nreq']) = hst[h]
                      /\ \A p \in UserHeaders(rhdr'[nreq']) :
                            h \in entitled[p[3]])]_vars

\* Two handles exist, set_header was called on the first only, and of two
\* requests sent afterwards the one through the first handle carries the
\* header and the other does not.
C13_Witness ==
    /\ Len(hst) = 2
    /\ hst[1] = {<< "X-Custom", "user", 1 >>}
    /\ hst[2] = {}
    /\ \E r, q \in Reqs :
        /\ << "X-Custom", "user", 1 >> \in rhdr[r]
        /\ st[q] # "unsent"
        /\ UserHeaders(rhdr[q]) = {}

\* a < b, as unsigned integers.
UsizeLess(a, b) ==
    \E k \in 1..UsizeLimbs :
        /\ a[k] < b[k]
        /\ \A i \in 1..(k - 1) : a[i] = b[i]
\* b is one greater than a.
UsizeSucc(a, b) ==
    \E k \in 1..UsizeLimbs :
        /\ b[k] = a[k] + 1
        /\ \A i \in 1..(k - 1) : b[i] = a[i]
        /\ \A i \in (k + 1)..UsizeLimbs : a[i] = LimbBase - 1 /\ b[i] = 0

\* C14: the counter starts at 1; every get_next_id call returns the value
\* it finds and leaves a value one greater, except at the integer maximum,
\* where it leaves 0. So the values returned grow strictly, and no two are
\* equal, as long as none of them is the maximum; 0 is only ever returned
\* by the call that follows the one that returned the maximum.
C14_WrapsOnlyAtMax ==
    /\ []((ids = <<>> /\ id # UsizeMax) => id = ToUsize(1))
    /\ [](\A i, j \in 1..Len(ids) :
            (i < j /\ \A k \in i..(j - 1) : ids[k][2] # UsizeMax) =>
                UsizeLess(ids[i][2], ids[j][2]))
    /\ [](\A i \in 1..Len(ids) :
            ids[i][2] = UsizeZero => (i > 1 /\ ids[i - 1][2] = UsizeMax))
    /\ [][Len(ids') = Len(ids) + 1 =>
            /\ ids'[Len(ids')][2] = id
            /\ id # UsizeMax => UsizeSucc(id, id')
            /\ id = UsizeMax => id' = UsizeZero]_vars

\* A value was returned a second time, by a call made after the counter
\* had returned the maximum and then 0.
C14_Witness ==
    \E i, j, k \in 1..Len(ids) :
        /\ i < k /\ k < j
        /\ ids[i][2] = ids[j][2]
        /\ ids[k][2] = UsizeZero
        /\ ids[k - 1][2] = UsizeMax

\* C15: with a timeout configured, every request whose HTTP call the loop
\* has issued eventually has its result handed to its completion channel
\* (unless the loop's host is torn down first), whatever the destination
\* does during the call and during the body read.
C15_StartedEventuallyDelivered ==
    \A r \in Reqs :
        (timeout = "Some" /\ st[r] \in {"call", "body"})
            ~> (st[r] = "done" \/ loop = "torn")

\* C16: standalone() returns, and returns exactly the one message the
\* spawned thread sent: the transport or the construction error. The
\* transport exists only once the client, the queue and the loop's future
\* do. A request sent before the thread has entered core.run is accepted
\* and stays in the queue, in its order, nothing started; and once the
\* thread runs the loop, the request at the head of the queue is started.
C16_StandaloneHandoff ==
    /\ []((tpc # "none" /\ bres # None) => (bres = crres /\ sync = None))
    /\ [](sync # None =>
            (bres = None /\ sync = crres /\ tpc \in {"sent", "run", "exited"}))
    /\ []((transport > 0 \/ bres = OkTransport) =>
            (BackEnd \subseteq made /\ loop # "none"))
    /\ [](tpc \in {"create", "signal", "sent"} =>
            /\ started = <<>>
            /\ \A r \in Reqs :
                  st[r] # "unsent" =>
                      /\ st[r] = "queued"
                      /\ \E i \in 1..Len(queue) : queue[i] = r /\ i = r
                      /\ chan[r] = None)
    /\ (tpc # "none") ~> (bres # None)
    /\ \A r \in Reqs :
          (tpc = "sent" /\ queue # <<>> /\ Head(queue) = r)
              ~> (r \in Range(started))

\* standalone() has returned the transport and two requests were sent
\* through it while the spawned thread had not yet entered core.run.
C16_Witness ==
    /\ tpc = "sent"
    /\ bres = OkTransport
    /\ Len(queue) = 2

\* C17: the loop has terminated only if no HttpTransport and no HttpHandle
\* is left, and then nothing is left in the queue or in flight: every
\* request that was sent has had its result handed over. The standalone
\* thread exits only after the loop has terminated. A caller that still
\* waits then has its result ready in its channel. With every sender
\* dropped and the queue worked off the loop does terminate, and the
\* standalone thread does exit.
C17_LoopTermination ==
    /\ [](loop = "finished" =>
            /\ transport = 0 /\ hst = <<>>
            /\ queue = <<>> /\ fut = 0
            /\ \A r \in Reqs :
                  /\ st[r] \in {"unsent", "done"}
                  /\ (st[r] = "done" /\ caller[r] = "waiting") =>
                        /\ chan[r] = sentRes[r]
                        /\ SendFuturePoll(TRUE, chan[r]) = sentRes[r])
    /\ []((tpc = "exited" /\ crres = OkTransport) => loop = "finished")
    /\ [][loop' = "finished" => loop \in {"running", "finished"}]_vars
    /\ (transport = 0 /\ hst = <<>> /\ bres = OkTransport
            /\ queue = <<>> /\ fut = 0)
          ~> (loop = "finished")
    /\ (loop = "finished" /\ tpc = "run") ~> (tpc = "exited")

\* Two requests were processed, the loop has terminated and the standalone
\* thread has exited, while one caller is still waiting with its result
\* ready.
C17_Witness ==
    /\ loop = "finished"
    /\ tpc = "exited"
    /\ Len(started) = 2
    /\ \E r \in Reqs :
        caller[r] = "waiting" /\ chan[r] = Ok(<< 7, 8, 9 >>)

\* A request whose caller has dropped the future is where any other request
\* would be: in the queue until the loop takes it, started before every
\* later request that has been started, and, once ended, with its HTTP call
\* made and its result passed to response_tx.send once.
DroppedKeepsItsPlace ==
    \A r \in Reqs :
        (caller[r] = "dropped" /\ st[r] # "rejected") =>
            /\ st[r] = "queued" <=> r \in Range(queue)
            /\ \A q \in Range(started) :
                  q > r => \E i, j \in 1..Len(started) :
                              i < j /\ started[i] = r /\ started[j] = q
            /\ st[r] = "done" =>
                  /\ tlres[r] # None
                  /\ nsent[r] = 1
                  /\ sentRes[r] # None

\* C18: a request whose caller has dropped the future is treated like any
\* other. The drop changes nothing in the queue or the loop; the request
\* stays queued until the loop takes it, in its turn:
\* no later request is started before it. Its HTTP call is made and its
\* result is passed to response_tx.send, once. The step that ends it leaves
\* the loop running with its queue, and leaves every other request's state,
\* channel and outcome as they were.
C18_DropDoesNotRetract ==
    /\ []DroppedKeepsItsPlace
    /\ [][\A r \in Reqs :
            /\ (caller[r] = "waiting" /\ caller'[r] = "dropped") =>
                  /\ queue' = queue /\ fut' = fut /\ loop' = loop
                  /\ st' = st /\ chan' = chan /\ started' = started
            /\ (caller[r] = "dropped" /\ st[r] \in {"call", "body"}
                    /\ st'[r] = "done") =>
                  /\ loop' = "running" /\ queue' = queue
                  /\ \A q \in Reqs \ {r} :
                        /\ st'[q] = st[q]
                        /\ chan'[q] = chan[q]
                        /\ sentRes'[q] = sentRes[q]
                        /\ outcome'[q] = outcome[q]]_vars

\* The first caller dropped its future while its request was queued; the
\* call was made all the same and its result could not be delivered; the
\* second caller got its response.
C18_Witness ==
    \E r, q \in Reqs :
        /\ r < q
        /\ caller[r] = "dropped" /\ st[r] = "done"
        /\ tlres[r] = Ready(200) /\ chan[r] = None
        /\ sentRes[r] = Ok(<< 7, 8, 9 >>)
        /\ outcome[q] = HttpError(201)

\* What the HTTP call of request r came to: the error TimeLimited resolved
\* with, the error for the status of its response, or its body.
OwnResult(r) ==
    IF tlres[r][1] = "Err" THEN tlres[r][2]
    ELSE IF tlres[r][2] # 200 THEN HttpError(tlres[r][2])
    ELSE IF bodyst[r] = "eof" THEN Ok(Concat2(body[r]))
    ELSE Hyper

\* C19: whatever a request's channel holds, and whatever its caller got
\* from the loop, is the outcome of that request's own HTTP call, handed
\* over when the request ended. A request the timer won for has had
\* RequestTimeout sent, once, and the late answer to its abandoned call
\* changes no request's channel, sent result or outcome.
C19_OwnResultOnly ==
    /\ [](\A r \in Reqs :
            /\ chan[r] \notin {None, Canceled} =>
                  (st[r] = "done" /\ chan[r] = OwnResult(r))
            /\ outcome[r] \notin {None, QueueClosed, ExecutorTerminated} =>
                  (st[r] = "done" /\ outcome[r] = OwnResult(r))
            /\ tlres[r] = Err(RequestTimeout) =>
                  /\ st[r] = "done" /\ nsent[r] = 1
                  /\ sentRes[r] = RequestTimeout
                  /\ chan[r] \in {None, RequestTimeout}
                  /\ outcome[r] \in {None, RequestTimeout})
    /\ [][\A r \in Reqs :
            (st[r] = "done" /\ op'[r] # op[r]) =>
                /\ chan' = chan /\ sentRes' = sentRes /\ nsent' = nsent
                /\ outcome' = outcome /\ st' = st /\ fut' = fut]_vars

\* The first request timed out and its caller got RequestTimeout; the
\* destination answered the abandoned call with 200 afterwards; the second
\* request's caller got the error of its own response.
C19_Witness ==
    \E r, q \in Reqs :
        /\ r < q
        /\ tlres[r] = Err(RequestTimeout) /\ op[r] = Ready(200)
        /\ outcome[r] = RequestTimeout
        /\ outcome[q] = HttpError(201)

\* C20: a request that has not been taken off the queue has no timer, and
\* nothing has been resolved or sent for it, however many time limits have
\* run out since it was queued. A timer exists only for a request the loop
\* has started, and is created in the very step that takes the request off
\* the queue; RequestTimeout is only ever sent for a started request.
C20_TimerFromDequeue ==
    /\ [](\A r \in Reqs :
            /\ st[r] \in {"unsent", "queued", "rejected"} =>
                  (timer[r] = "none" /\ tlres[r] = None /\ sentRes[r] = None)
            /\ st[r] = "queued" => (chan[r] = None /\ outcome[r] = None)
            /\ timer[r] # "none" =>
                  (timeout = "Some" /\ r \in Range(started))
            /\ sentRes[r] = RequestTimeout => r \in Range(started))
    /\ [][\A r \in Reqs :
            (timer[r] = "none" /\ timer'[r] # "none") =>
                /\ st[r] = "queued" /\ st'[r] = "call"
                /\ fut = 0 /\ fut' = r
                /\ timer'[r] = "running"]_vars

\* A request waited in the queue while the time limit of the request ahead
\* of it ran out, was started only then, and its own time limit has now run
\* out too: its caller has waited more than one full duration and has no
\* result yet.
C20_Witness ==
    \E r \in Reqs :
        /\ elapsed[r] >= 1
        /\ st[r] = "call" /\ timer[r] = "fired"
        /\ caller[r] = "waiting" /\ chan[r] = None

====
